---- MODULE Spec2Model ----
(***************************************************************************)
(* The two documentation maintenance scripts of the repository:            *)
(*                                                                         *)
(*   update_terraform_docs.py  walks the `updates` mapping, calls          *)
(*       update_file on every entry and finally removes the analysis file; *)
(*   clean_planfiles_doc.py    reads planfiles.mdx, applies a chain of     *)
(*       re.sub substitutions and writes the result back.                  *)
(*                                                                         *)
(* Text is a sequence of tokens.  A token stands for one fixed piece of    *)
(* text; the patterns of both scripts are sequences of whole tokens:       *)
(*                                                                         *)
(*   "NL"    "\n"                                                          *)
(*   "X"     ordinary text that contains none of the patterns              *)
(*   "TC"    "This command ..." (text of a line starting with it)          *)
(*   "NP"    ":::note purpose"       "UC"   "Use this command"             *)
(*   "CL"    ":::"                   "SG"   "<Screengrab"                  *)
(*   "ADD"   the purpose_addon sentence (it begins with a space)           *)
(*   "INFO"  ":::info Atmos Behavior"                                      *)
(*   "INFOE" ":::info Atmos Enhancements"                                  *)
(*   "BODY"  one line of the body of an info box                           *)
(*   "HASH"  "#"                     "H2"   "## "                          *)
(*   "CI"    "CI/CD Integration"     "BP"   "Best Practices"               *)
(*   "ALT"   "Alternative: JSON/YAML Planfiles"                            *)
(*   "ALTEND" "This performs a semantic comparison of the plan data        *)
(*            structures, not a naive text diff."                          *)
(*   "NUM"   "1." (a match of \d+\.) "UP"   " Use Planfiles in Production" *)
(*   "GL"    "For GitLab-managed"    "FENCE" "```"                         *)
(*                                                                         *)
(* so "### x" is <<"HASH", "H2", "X">>: the text "## " occurs inside it.   *)
(***************************************************************************)
EXTENDS Integers, Sequences, FiniteSets

VARIABLES
    script,         \* which script this behaviour runs: "update" or "clean"
    fs,             \* the file system: path -> [exists, content]
    fs0,            \* the file system before the first run
    pc,             \* position of the running script
    run,            \* number of the current run of the script
    idx,            \* update script: position of the for loop in `updates`
    updated_count,  \* update script: updated_count
    wrote,          \* paths opened for writing during the current run
    processed,      \* update script: the filenames update_file was called with, this run
    last,           \* update script: the locals of the last update_file call
    content,        \* clean script: the variable content
    read_text       \* clean script: the text f.read() returned

vars ==
    <<script, fs, fs0, pc, run, idx, updated_count, wrote, processed, last, content,
      read_text>>

----------------------------------------------------------------------------
(* Bounds of the model.                                                    *)

\* mapped files the model's file system holds: the first NumFiles of `updates`
NumFiles == 3
\* an .mdx file of the update script is made of at most MaxBlocks blocks
MaxBlocks == 3
\* when a mapped file is missing, the others are made of at most MaxBlocksPartial blocks
MaxBlocksPartial == 1
\* planfiles.mdx is made of at most MaxSections blocks
MaxSections == 3
\* a script is run at most MaxRuns times in a row
MaxRuns == 2

----------------------------------------------------------------------------
(* Strings.                                                                *)

\* s[i:i+len(p)] == p
StartsWithAt(s, i, p) ==
    /\ i + Len(p) - 1 <= Len(s)
    /\ \A k \in 1..Len(p) : s[i + k - 1] = p[k]

Min(S) == CHOOSE x \in S : \A y \in S : x <= y

\* the first position from i on where p occurs in s, 0 when there is none
FirstAt(s, i, p) ==
    LET at == {j \in i..(Len(s) - Len(p) + 1) : StartsWithAt(s, j, p)}
    IN  IF at = {} THEN 0 ELSE Min(at)

\* str.replace(old, new): every non-overlapping occurrence, left to right
RECURSIVE ReplaceFrom(_, _, _, _)
ReplaceFrom(s, i, old, new) ==
    LET h == FirstAt(s, i, old)
    IN  IF h = 0 THEN SubSeq(s, i, Len(s))
        ELSE SubSeq(s, i, h - 1) \o new \o ReplaceFrom(s, h + Len(old), old, new)

str_replace(s, old, new) == ReplaceFrom(s, 1, old, new)

\* str.split('\n'): the pieces between the newlines (always at least one)
RECURSIVE SplitFrom(_, _)
SplitFrom(s, i) ==
    LET h == FirstAt(s, i, <<"NL">>)
    IN  IF h = 0 THEN <<SubSeq(s, i, Len(s))>>
        ELSE <<SubSeq(s, i, h - 1)>> \o SplitFrom(s, h + 1)

str_split(s) == SplitFrom(s, 1)

\* '\n'.join(lines)
RECURSIVE str_join(_)
str_join(lines) ==
    IF Len(lines) = 0 THEN <<>>
    ELSE IF Len(lines) = 1 THEN lines[1]
    ELSE lines[1] \o <<"NL">> \o str_join(Tail(lines))

\* str.strip(): "NL" is the only token that is white space
RECURSIVE LStrip(_)
LStrip(s) == IF Len(s) > 0 /\ s[1] = "NL" THEN LStrip(Tail(s)) ELSE s

RECURSIVE RStrip(_)
RStrip(s) ==
    IF Len(s) > 0 /\ s[Len(s)] = "NL" THEN RStrip(SubSeq(s, 1, Len(s) - 1)) ELSE s

str_strip(s) == RStrip(LStrip(s))

\* line.startswith("This command")
startswith_this_command(line) == Len(line) > 0 /\ line[1] = "TC"

----------------------------------------------------------------------------
(* update_terraform_docs.py                                                *)

BoxBehavior == <<"NL", "NL", "INFO", "NL", "BODY", "NL", "CL">>

BoxEnhancements ==
    <<"NL", "NL", "INFOE", "NL", "BODY", "NL", "BODY", "NL", "BODY", "NL",
      "BODY", "NL", "BODY", "NL", "BODY", "NL", "CL">>

Entry(f, addon, box) == [filename |-> f, purpose_addon |-> addon, info_box |-> box]

\* the mapping, in the order the for loop visits it
updates == <<
    Entry("terraform-fmt.mdx", <<"ADD">>, BoxBehavior),
    Entry("terraform-version.mdx", <<"ADD">>, BoxBehavior),
    Entry("terraform-login.mdx", <<>>, BoxBehavior),
    Entry("terraform-logout.mdx", <<>>, BoxBehavior),
    Entry("terraform-console.mdx", <<>>, BoxBehavior),
    Entry("terraform-output.mdx", <<>>, BoxBehavior),
    Entry("terraform-show.mdx", <<>>, BoxBehavior),
    Entry("terraform-providers.mdx", <<>>, BoxBehavior),
    Entry("terraform-graph.mdx", <<>>, BoxBehavior),
    Entry("terraform-get.mdx", <<>>, BoxBehavior),
    Entry("terraform-force-unlock.mdx", <<>>, BoxBehavior),
    Entry("terraform-test.mdx", <<>>, BoxBehavior),
    Entry("terraform-metadata.mdx", <<>>, BoxBehavior),
    Entry("terraform-modules.mdx", <<>>, BoxBehavior),
    Entry("terraform-validate.mdx", <<>>, BoxBehavior),
    Entry("terraform-state.mdx", <<>>, BoxBehavior),
    Entry("terraform-taint.mdx", <<>>, BoxBehavior),
    Entry("terraform-untaint.mdx", <<>>, BoxBehavior),
    Entry("terraform-import.mdx", <<>>, BoxEnhancements),
    Entry("terraform-refresh.mdx", <<>>, BoxEnhancements),
    Entry("terraform-destroy.mdx", <<>>, BoxEnhancements) >>

\* the entries the model's loop visits
Mapped == SubSeq(updates, 1, IF NumFiles < Len(updates) THEN NumFiles ELSE Len(updates))

MappedFiles == {Mapped[i].filename : i \in 1..Len(Mapped)}

analysis_file == "terraform_command_analysis.md"

file_path == "planfiles.mdx"

Paths == MappedFiles \cup {analysis_file, file_path}

NoFile == [exists |-> FALSE, content |-> <<>>]

File(text) == [exists |-> TRUE, content |-> text]

\* the purpose addon: two str.replace calls
add_purpose(text, updates_dict) ==
    IF Len(updates_dict.purpose_addon) > 0
    THEN LET c1 == str_replace(text, <<"NP", "NL", "UC">>, <<"NP", "NL", "UC">>)
         IN  str_replace(c1, <<"CL", "NL", "NL", "SG">>,
                         updates_dict.purpose_addon \o <<"NL", "CL", "NL", "NL", "SG">>)
    ELSE text

\* (variant: the scan without the added_info flag, a box after every such line)
RECURSIVE InfoLoopEvery(_, _, _, _, _)
InfoLoopEvery(lines, i, new_lines, added_info, box) ==
    IF i > Len(lines) THEN [new_lines |-> new_lines, added_info |-> added_info]
    ELSE LET appended == Append(new_lines, lines[i])
             hit == /\ i > 1
                    /\ startswith_this_command(lines[i - 1])
                    /\ lines[i] = <<>>
         IN  IF hit
             THEN InfoLoopEvery(lines, i + 1, Append(appended, box), TRUE, box)
             ELSE InfoLoopEvery(lines, i + 1, appended, added_info, box)

\* the body of `for i, line in enumerate(lines)`: i is Python's i plus one
RECURSIVE InfoLoop(_, _, _, _, _)
InfoLoop(lines, i, new_lines, added_info, box) ==
    IF i > Len(lines) THEN [new_lines |-> new_lines, added_info |-> added_info]
    ELSE LET appended == Append(new_lines, lines[i])
             hit == /\ ~added_info
                    /\ i > 1
                    /\ startswith_this_command(lines[i - 1])
                    /\ lines[i] = <<>>
         IN  IF hit
             THEN InfoLoop(lines, i + 1, Append(appended, box), TRUE, box)
             ELSE InfoLoop(lines, i + 1, appended, added_info, box)

\* the info box: inserted by a scan of the lines
add_info_box(text, updates_dict) ==
    IF Len(updates_dict.info_box) > 0
    THEN LET r == InfoLoop(str_split(text), 1, <<>>, FALSE, str_strip(updates_dict.info_box))
         IN  IF r.added_info THEN str_join(r.new_lines) ELSE text
    ELSE text

\* what update_file leaves behind: the file system, the value it returns, whether
\* it raised, whether it opened the file for writing, and its locals
Call(fsys, ret, raised, opened_w, filename, updates_dict, existed, original_content, c1, c2) ==
    [fs |-> fsys, ret |-> ret, raised |-> raised, opened_w |-> opened_w,
     filename |-> filename, existed |-> existed,
     purpose_addon |-> updates_dict.purpose_addon, info_box |-> updates_dict.info_box,
     original_content |-> original_content, after_purpose |-> c1, content |-> c2]

\* (variant: the write and the True without the comparison with original_content)
edit_file_always_writes(fsys, filename, updates_dict) ==
    LET original_content == fsys[filename].content
        c1 == add_purpose(original_content, updates_dict)
        c2 == add_info_box(c1, updates_dict)
    IN  Call([fsys EXCEPT ![filename] = File(c2)],
             TRUE, FALSE, TRUE, filename, updates_dict, TRUE, original_content, c1, c2)

\* update_file once the file is known to exist: read, edit, write back if changed
edit_file(fsys, filename, updates_dict) ==
    LET original_content == fsys[filename].content
        c1 == add_purpose(original_content, updates_dict)
        c2 == add_info_box(c1, updates_dict)
        changed == c2 # original_content
    IN  Call(IF changed THEN [fsys EXCEPT ![filename] = File(c2)] ELSE fsys,
             changed, FALSE, changed, filename, updates_dict, TRUE, original_content, c1, c2)

\* (variant: no os.path.exists test, so open(filepath, 'r') raises on a missing file)
update_file_nocheck(fsys, filename, updates_dict) ==
    IF ~fsys[filename].exists
    THEN Call(fsys, FALSE, TRUE, FALSE, filename, updates_dict, FALSE, <<>>, <<>>, <<>>)
    ELSE edit_file(fsys, filename, updates_dict)

\* update_file(filename, updates_dict) on the file system fsys
update_file(fsys, filename, updates_dict) ==
    IF ~fsys[filename].exists
    THEN Call(fsys, FALSE, FALSE, FALSE, filename, updates_dict, FALSE, <<>>, <<>>, <<>>)
    ELSE edit_file(fsys, filename, updates_dict)

\* (variant: the clean-up without the os.remove)
remove_analysis_skip(fsys) == fsys

\* os.path.exists(analysis_file) and os.remove(analysis_file)
remove_analysis(fsys) ==
    IF fsys[analysis_file].exists THEN [fsys EXCEPT ![analysis_file] = NoFile] ELSE fsys

\* no call of update_file yet
NoCall ==
    [fs |-> <<>>, ret |-> FALSE, raised |-> FALSE, opened_w |-> FALSE, filename |-> "",
     existed |-> FALSE, purpose_addon |-> <<>>, info_box |-> <<>>,
     original_content |-> <<>>, after_purpose |-> <<>>, content |-> <<>>]

\* the blocks the .mdx files of the update script are made of
DocBlocks ==
    { <<"TC", "NL">>, <<"NL">>, <<"X", "NL">>,
      <<"NP", "NL", "UC", "NL", "CL", "NL">>, <<"CL", "NL">>, <<"SG", "NL">> }

RECURSIVE TextsOf(_, _)
TextsOf(blocks, n) ==
    IF n = 0 THEN {<<>>}
    ELSE LET shorter == TextsOf(blocks, n - 1)
         IN  shorter \cup {d \o b : d \in shorter, b \in blocks}

Docs == TextsOf(DocBlocks, MaxBlocks)

ShortDocs == TextsOf(DocBlocks, MaxBlocksPartial)

\* the mapped files in `present` exist and hold the text d, the analysis file
\* exists or not, planfiles.mdx is some other file.  Every text is tried with all
\* the mapped files present, every set of present files with the short texts.
InitUpdate ==
    /\ script = "update"
    /\ \E d \in Docs, present \in SUBSET MappedFiles, a \in BOOLEAN :
          /\ present = MappedFiles \/ d \in ShortDocs
          /\ fs = [p \in Paths |->
                  IF p \in MappedFiles THEN (IF p \in present THEN File(d) ELSE NoFile)
                  ELSE IF p = analysis_file THEN (IF a THEN File(<<"X", "NL">>) ELSE NoFile)
                  ELSE File(<<"X", "NL">>)]
    /\ fs0 = fs
    /\ pc = "loop"
    /\ run = 1
    /\ idx = 1
    /\ updated_count = 0
    /\ wrote = {}
    /\ processed = <<>>
    /\ last = NoCall
    /\ content = <<>>
    /\ read_text = <<>>

\* one iteration of `for filename, updates_dict in updates.items()`
UpdateStep ==
    /\ script = "update"
    /\ pc = "loop"
    /\ idx <= Len(Mapped)
    /\ LET r == update_file(fs, Mapped[idx].filename, Mapped[idx])
       IN  /\ fs' = r.fs
           /\ last' = [r EXCEPT !.fs = <<>>]
           /\ wrote' = IF r.opened_w THEN wrote \cup {r.filename} ELSE wrote
           /\ processed' = Append(processed, r.filename)
           /\ IF r.raised
              THEN pc' = "crashed" /\ UNCHANGED <<idx, updated_count>>
              ELSE /\ pc' = "loop"
                   /\ idx' = idx + 1
                   /\ updated_count' = IF r.ret THEN updated_count + 1 ELSE updated_count
    /\ UNCHANGED <<script, fs0, run, content, read_text>>

\* after the loop: the summary line and the clean-up of the analysis file
Cleanup ==
    /\ script = "update"
    /\ pc = "loop"
    /\ idx > Len(Mapped)
    /\ fs' = remove_analysis(fs)
    /\ pc' = "done"
    /\ UNCHANGED <<script, fs0, run, idx, updated_count, wrote, processed, last, content,
                   read_text>>

\* the script is started again on the files the last run left
RerunUpdate ==
    /\ script = "update"
    /\ pc = "done"
    /\ run < MaxRuns
    /\ run' = run + 1
    /\ pc' = "loop"
    /\ idx' = 1
    /\ updated_count' = 0
    /\ wrote' = {}
    /\ processed' = <<>>
    /\ last' = NoCall
    /\ UNCHANGED <<script, fs, fs0, content, read_text>>

----------------------------------------------------------------------------
(* clean_planfiles_doc.py                                                  *)

\* where `$` matches (no re.MULTILINE): at the end of the text, and before a
\* newline that is the last character of the text
at_end(s, j) == j = Len(s) + 1 \/ (j = Len(s) /\ s[j] = "NL")

\* the first position from j on where the lookahead (?=stop|...|$) holds
FirstStop(s, j, stops) ==
    Min({k \in j..(Len(s) + 1) :
            at_end(s, k) \/ \E q \in 1..Len(stops) : StartsWithAt(s, k, stops[q])})

\* re.sub(r'head.*?(?=stop|...|$)', repl, s, flags=re.DOTALL)
RECURSIVE SubUntilFrom(_, _, _, _, _)
SubUntilFrom(s, i, head, stops, repl) ==
    LET h == FirstAt(s, i, head)
    IN  IF h = 0 THEN SubSeq(s, i, Len(s))
        ELSE SubSeq(s, i, h - 1) \o repl
                \o SubUntilFrom(s, FirstStop(s, h + Len(head), stops), head, stops, repl)

re_sub_until(s, head, stops, repl) == SubUntilFrom(s, 1, head, stops, repl)

\* re.sub(r'head.*?tail', repl, s, flags=re.DOTALL)
\* (a head with no tail after it is no match, and then no later head has one)
RECURSIVE SubThroughFrom(_, _, _, _, _)
SubThroughFrom(s, i, head, tail, repl) ==
    LET h == FirstAt(s, i, head)
        e == IF h = 0 THEN 0 ELSE FirstAt(s, h + Len(head), tail)
    IN  IF e = 0 THEN SubSeq(s, i, Len(s))
        ELSE SubSeq(s, i, h - 1) \o repl
                \o SubThroughFrom(s, e + Len(tail), head, tail, repl)

re_sub_through(s, head, tail, repl) == SubThroughFrom(s, 1, head, tail, repl)

\* the end of the run of newlines that starts at i: \n{3,} is greedy
NewlinesEnd(s, i) == Min({k \in i..(Len(s) + 1) : k = Len(s) + 1 \/ s[k] # "NL"})

\* re.sub(r'\n{3,}', '\n\n', s)
RECURSIVE NormalizeFrom(_, _)
NormalizeFrom(s, i) ==
    LET h == FirstAt(s, i, <<"NL", "NL", "NL">>)
    IN  IF h = 0 THEN SubSeq(s, i, Len(s))
        ELSE SubSeq(s, i, h - 1) \o <<"NL", "NL">> \o NormalizeFrom(s, NewlinesEnd(s, h))

\* (variant: no normalization of blank lines)
normalize_missing(s) == s

normalize_blank_lines(s) == NormalizeFrom(s, 1)

\* r'## CI/CD Integration.*?(?=## |$)'
ci_cd_pattern == [head |-> <<"H2", "CI">>, stops |-> << <<"H2">> >>]

\* r'## Alternative: JSON/YAML Planfiles.*?This performs ... text diff\.\n'
old_alternative_section == [head |-> <<"H2", "ALT">>, tail |-> <<"ALTEND", "NL">>]

\* the replacement of the Alternative section.  A run of consecutive lines of
\* ordinary text is one "X", "NL"; headings, fences and blank lines are kept
new_alternative_section ==
    <<"H2", "X", "NL", "NL", "HASH", "H2", "X", "NL", "NL", "X", "NL",
      "NL", "FENCE", "X", "NL", "NL", "X", "NL", "NL", "X", "NL", "FENCE",
      "NL", "NL", "HASH", "H2", "X", "NL", "NL", "X", "NL", "NL", "FENCE",
      "X", "NL", "NL", "X", "NL", "FENCE", "NL", "NL", "HASH", "HASH",
      "H2", "X", "NL", "NL", "X", "NL", "NL", "FENCE", "X", "NL", "NL",
      "X", "NL", "NL", "X", "NL", "NL", "X", "NL", "NL", "X", "NL",
      "FENCE", "NL", "NL", "X", "NL", "NL", "HASH", "H2", "X", "NL", "NL",
      "X", "NL", "NL", "FENCE", "X", "NL", "NL", "X", "NL", "NL", "X",
      "NL", "FENCE", "NL", "NL", "ALTEND", "NL">>

\* r'### \d+\. Use Planfiles in Production.*?(?=### \d+\.|## |$)'
production_pattern ==
    [head |-> <<"HASH", "H2", "NUM", "UP">>,
     stops |-> << <<"HASH", "H2", "NUM">>, <<"H2">> >>]

\* r'## Best Practices.*?(?=## |$)'
old_practices == [head |-> <<"H2", "BP">>, stops |-> << <<"H2">> >>]

\* the replacement of the Best Practices section, abbreviated as above
new_practices ==
    <<"H2", "BP", "NL", "NL", "HASH", "H2", "X", "NL", "NL", "X", "NL",
      "NL", "X", "NL", "NL", "HASH", "H2", "X", "NL", "NL", "X", "NL",
      "NL", "HASH", "H2", "X", "NL", "NL", "X", "NL", "NL">>

\* r'For GitLab-managed.*?```\n'
gitlab_pattern == [head |-> <<"GL">>, tail |-> <<"FENCE", "NL">>]

remove_ci_cd(s) == re_sub_until(s, ci_cd_pattern.head, ci_cd_pattern.stops, <<>>)

replace_alternative(s) ==
    re_sub_through(s, old_alternative_section.head, old_alternative_section.tail,
                   new_alternative_section)

remove_production(s) ==
    re_sub_until(s, production_pattern.head, production_pattern.stops, <<>>)

replace_practices(s) == re_sub_until(s, old_practices.head, old_practices.stops, new_practices)

remove_gitlab(s) == re_sub_through(s, gitlab_pattern.head, gitlab_pattern.tail, <<>>)

\* the chain of substitutions between the read and the write
clean_content(s) ==
    normalize_blank_lines(
        remove_gitlab(replace_practices(remove_production(replace_alternative(remove_ci_cd(s))))))

\* the blocks planfiles.mdx is made of
SectionBlocks ==
    { <<"NL">>, <<"X", "NL">>, <<"H2", "X", "NL">>, <<"HASH", "H2", "X", "NL">>,
      <<"H2", "CI", "NL">>, <<"H2", "BP", "NL">>,
      <<"HASH", "H2", "NUM", "UP", "NL">>, <<"HASH", "H2", "NUM", "X", "NL">>,
      <<"H2", "ALT", "NL">>, <<"ALTEND", "NL">>, <<"GL">>, <<"FENCE", "NL">> }

Pages == TextsOf(SectionBlocks, MaxSections)

InitClean ==
    /\ script = "clean"
    /\ \E target \in {NoFile} \cup {File(d) : d \in Pages} :
          fs = [p \in Paths |-> IF p = file_path THEN target ELSE File(<<"X", "NL">>)]
    /\ fs0 = fs
    /\ pc = "open"
    /\ run = 1
    /\ idx = 1
    /\ updated_count = 0
    /\ wrote = {}
    /\ processed = <<>>
    /\ last = NoCall
    /\ content = <<>>
    /\ read_text = <<>>

\* with open(file_path, 'r') as f: content = f.read()
CleanRead ==
    /\ script = "clean"
    /\ pc = "open"
    /\ IF fs[file_path].exists
       THEN /\ pc' = "rewrite"
            /\ content' = fs[file_path].content
            /\ read_text' = fs[file_path].content
       ELSE /\ pc' = "crashed"
            /\ UNCHANGED <<content, read_text>>
    /\ UNCHANGED <<script, fs, fs0, run, idx, updated_count, wrote, processed, last>>

\* the substitutions, then with open(file_path, 'w') as f: f.write(content)
CleanRewrite ==
    /\ script = "clean"
    /\ pc = "rewrite"
    /\ content' = clean_content(content)
    /\ fs' = [fs EXCEPT ![file_path] = File(content')]
    /\ wrote' = wrote \cup {file_path}
    /\ pc' = "done"
    /\ UNCHANGED <<script, fs0, run, idx, updated_count, processed, last, read_text>>

\* the script is started again on the file the last run left
RerunClean ==
    /\ script = "clean"
    /\ pc = "done"
    /\ run < MaxRuns
    /\ run' = run + 1
    /\ pc' = "open"
    /\ wrote' = {}
    /\ content' = <<>>
    /\ read_text' = <<>>
    /\ UNCHANGED <<script, fs, fs0, idx, updated_count, processed, last>>

----------------------------------------------------------------------------
(* Either script, run up to MaxRuns times on a file system of its own.     *)

Init == InitUpdate \/ InitClean

Next == UpdateStep \/ Cleanup \/ RerunUpdate \/ CleanRead \/ CleanRewrite \/ RerunClean

Spec == Init /\ [][Next]_vars

----------------------------------------------------------------------------
(* Properties of update_terraform_docs.py                                  *)

\* the name of every mapped file, in mapping order
MappedOrder == [i \in 1..Len(Mapped) |-> Mapped[i].filename]

\* update_file has been called in this run
Called == script = "update" /\ last.filename # ""

\* C1: update_terraform_docs is idempotent: a call of update_file on the content
\* a first run produced changes nothing, writes nothing and returns False.
C1_SecondRunChangesNothing ==
    (Called /\ run >= 2 /\ last.existed) =>
        /\ ~last.ret
        /\ last.filename \notin wrote
        /\ last.content = last.original_content

\* C3: a missing mapped file is skipped without a fault: update_file returns False
\* and neither creates nor writes it, the loop goes on through the mapping in
\* order, and a run ends only after the clean-up, with every entry visited.
C3_MissingFileSkipped ==
    script = "update" =>
        /\ pc # "crashed"
        /\ (Called /\ ~last.existed) =>
              /\ ~last.ret /\ ~last.raised
              /\ ~fs[last.filename].exists
              /\ last.filename \notin wrote
        /\ processed = SubSeq(MappedOrder, 1, Len(processed))
        /\ pc = "loop" => Len(processed) = idx - 1
        /\ pc = "done" => processed = MappedOrder

\* C3: the first mapped file is missing, a later one was updated, the run is over
C3_Witness ==
    /\ script = "update" /\ pc = "done" /\ run = 1
    /\ ~fs0[Mapped[1].filename].exists
    /\ ~fs[Mapped[1].filename].exists
    /\ Mapped[2].filename \in wrote
    /\ processed = MappedOrder

\* C7: a run touches the mapped files and the analysis file only: no other file
\* changes, no mapped file is created or deleted, only mapped files are written,
\* the analysis file is never modified, it is deleted only once every mapped file
\* has been processed, and after the run it does not exist.
C7_EffectsLimited ==
    script = "update" =>
        /\ fs[file_path] = fs0[file_path]
        /\ \A f \in MappedFiles : fs[f].exists = fs0[f].exists
        /\ wrote \subseteq MappedFiles
        /\ fs[analysis_file].exists => fs[analysis_file] = fs0[analysis_file]
        /\ (fs0[analysis_file].exists /\ ~fs[analysis_file].exists) =>
              (run > 1 \/ (pc = "done" /\ processed = MappedOrder))
        /\ pc = "done" => ~fs[analysis_file].exists

\* C7: the analysis file existed, a mapped file was missing, another was
\* updated, and the run is over with the analysis file gone
C7_Witness ==
    /\ script = "update" /\ pc = "done" /\ run = 1
    /\ fs0[analysis_file].exists /\ ~fs[analysis_file].exists
    /\ wrote # {}
    /\ \E f \in MappedFiles : ~fs0[f].exists

\* the lines that are empty and follow a line starting with "This command"
BoxPlaces(lines) ==
    {i \in 2..Len(lines) : lines[i] = <<>> /\ startswith_this_command(lines[i - 1])}

\* C9: one call inserts the info box at most once: right after the first empty
\* line whose preceding line starts with "This command" when there is one, and
\* nowhere otherwise; every line is kept, in order.
C9_InfoBoxOnce ==
    (Called /\ last.existed /\ Len(last.info_box) > 0) =>
        LET lines == str_split(last.after_purpose)
            places == BoxPlaces(lines)
        IN  IF places = {}
            THEN last.content = last.after_purpose
            ELSE LET k == Min(places)
                 IN  last.content =
                        str_join(SubSeq(lines, 1, k) \o <<str_strip(last.info_box)>>
                                    \o SubSeq(lines, k + 1, Len(lines)))

\* C9: a file with two "This command" paragraphs got its box
C9_Witness ==
    /\ Called /\ last.existed /\ run = 1
    /\ Cardinality(BoxPlaces(str_split(last.after_purpose))) >= 2
    /\ last.content # last.after_purpose

\* the positions where a ':::note purpose' block ends before a blank line and
\* '<Screengrab': the last ':::' marker before the closing one opens a purpose note
Markers == {"NP", "CL", "INFO", "INFOE"}

PurposeNoteEnds(s) ==
    {p \in 1..Len(s) :
        /\ StartsWithAt(s, p, <<"CL", "NL", "NL", "SG">>)
        /\ \E q \in 1..(p - 1) :
              /\ s[q] = "NP"
              /\ \A r \in (q + 1)..(p - 1) : s[r] \notin Markers}

\* C10: the purpose addon goes in exactly once, at the end of the ':::note purpose'
\* block that a blank line and '<Screengrab' follow, into no other block, and an
\* entry with an empty purpose_addon leaves the text as it is.
C10_AddonOnlyInPurposeNote ==
    (Called /\ last.existed) =>
        LET s == last.original_content
            ends == PurposeNoteEnds(s)
        IN  IF Len(last.purpose_addon) > 0 /\ ends # {}
            THEN last.after_purpose =
                    SubSeq(s, 1, Min(ends) - 1) \o last.purpose_addon \o <<"NL">>
                        \o SubSeq(s, Min(ends), Len(s))
            ELSE last.after_purpose = s

----------------------------------------------------------------------------
(* Properties of clean_planfiles_doc.py                                    *)

\* the run of clean_planfiles_doc.py is over and the file is written
Cleaned == script = "clean" /\ pc = "done"

\* C2: clean_planfiles_doc is idempotent: run on its own output, it writes
\* that output again.
C2_CleanIdempotent == (Cleaned /\ run >= 2) => fs[file_path].content = read_text

\* C4: with planfiles.mdx missing the script ends normally and does not
\* create the file.
C4_MissingFileSkipped ==
    (script = "clean" /\ ~fs0[file_path].exists) =>
        /\ pc # "crashed"
        /\ ~fs[file_path].exists

\* an empty line ends at p: a newline at the start of the text or after a newline
BlankLineAt(s, p) == s[p] = "NL" /\ (p = 1 \/ s[p - 1] = "NL")

HasThreeBlankLines(s) ==
    \E p \in 1..(Len(s) - 2) :
        BlankLineAt(s, p) /\ BlankLineAt(s, p + 1) /\ BlankLineAt(s, p + 2)

\* C6: the text written to planfiles.mdx has no three consecutive empty lines.
C6_NoThreeBlankLines == Cleaned => ~HasThreeBlankLines(fs[file_path].content)

\* the text as it is right before the normalization
BeforeNormalization(s) ==
    remove_gitlab(replace_practices(remove_production(replace_alternative(remove_ci_cd(s)))))

\* C6: the newlines a replacement text ends with made a run of three with those
\* of the page, in a page that had no such run, and the file is written
C6_Witness ==
    /\ Cleaned /\ run = 1
    /\ FirstAt(read_text, 1, <<"NL", "NL", "NL">>) = 0
    /\ FirstAt(read_text, 1, <<"H2", "BP">>) > 0
    /\ FirstAt(BeforeNormalization(read_text), 1, <<"NL", "NL", "NL">>) > 0
    /\ fs[file_path].content = content

\* a level-2 heading line starts at k
HeadingLineAt(s, k) == k <= Len(s) /\ s[k] = "H2" /\ (k = 1 \/ s[k - 1] = "NL")

\* where the section ends whose heading ends before j: at the next level-2
\* heading line, or at the end of the text
SectionEnd(s, j) == Min({k \in j..(Len(s) + 1) : at_end(s, k) \/ HeadingLineAt(s, k)})

\* every section with the heading `head`, whole, replaced by repl
RECURSIVE SectionSubFrom(_, _, _, _)
SectionSubFrom(s, i, head, repl) ==
    LET h == FirstAt(s, i, head)
    IN  IF h = 0 THEN SubSeq(s, i, Len(s))
        ELSE SubSeq(s, i, h - 1) \o repl
                \o SectionSubFrom(s, SectionEnd(s, h + Len(head)), head, repl)

\* the page with the CI/CD Integration sections removed whole and the Best
\* Practices sections replaced whole
WholeSectionsCleaned(s) ==
    LET a == SectionSubFrom(s, 1, ci_cd_pattern.head, <<>>)
        b == remove_production(replace_alternative(a))
        c == SectionSubFrom(b, 1, old_practices.head, new_practices)
    IN  normalize_blank_lines(remove_gitlab(c))

\* C8: whole sections are rewritten: a section ends at the next level-2 heading
\* line or at the end of the file, '###' subheadings do not end it; nothing of
\* the CI/CD Integration section is left and the Best Practices section is the
\* new text only.
C8_WholeSections ==
    (Cleaned /\ run = 1) => fs[file_path].content = WholeSectionsCleaned(read_text)

----------------------------------------------------------------------------
(* Properties of both scripts                                              *)

\* C5 as stated: in both scripts a file is opened for writing only if the
\* transformed text differs from the text read, and update_file returns True
\* exactly when it wrote, so updated_count is the number of files written.
C5_WrittenOnlyIfChanged ==
    /\ Called =>
          /\ (last.filename \in wrote) <=> (last.existed /\ last.content # last.original_content)
          /\ last.ret <=> (last.filename \in wrote)
    /\ script = "update" => updated_count = Cardinality(wrote)
    /\ Cleaned => ((file_path \in wrote) <=> (fs[file_path].content # read_text))

\* C5 amended: update_file opens its file for writing only if the text changed,
\* returns True exactly when it wrote, and updated_count is the number of files
\* written; clean_planfiles_doc writes the transformed text back always, also
\* when it equals the text read.
C5_UpdateWritesOnlyIfChanged ==
    /\ Called =>
          /\ (last.filename \in wrote) <=> (last.existed /\ last.content # last.original_content)
          /\ last.ret <=> (last.filename \in wrote)
          /\ (last.existed /\ last.filename \notin wrote) =>
                fs[last.filename].content = last.original_content
          /\ (last.filename \in wrote) => fs[last.filename].content = last.content
    /\ script = "update" => updated_count = Cardinality(wrote)
    /\ Cleaned => (file_path \in wrote /\ fs[file_path].content = content)

\* C5: a run of the update script that wrote one existing file and left another
\* one, unchanged, alone
C5_Witness ==
    /\ script = "update" /\ pc = "done"
    /\ updated_count >= 1
    /\ \E f \in MappedFiles : fs0[f].exists /\ f \notin wrote
    /\ Called /\ last.existed /\ ~last.ret

====
